---- MODULE Spec2Model ----
(***************************************************************************)
(* gr8r-airtable-worker v1.2.4: the POST /api/airtable/update handler      *)
(* (upsert of one Airtable record), the upstream record store it talks to  *)
(* and the logToGrafana reporter.                                          *)
(***************************************************************************)
EXTENDS Integers, Sequences, FiniteSets, TLC

----------------------------------------------------------------------------
\* Bounds of the model.

\* number of records the upstream store holds before the first call
MaxInitRecords == 2

\* the calls: the properties that relate calls relate two of them
Calls == {1, 2}

----------------------------------------------------------------------------
\* JavaScript values.  A JS string is a TLA+ string; the other values the
\* handler can meet in a JSON body are the tokens below.

Undef == "<undefined>"
JNull == "<null>"
JZero == "<0>"
JFalse == "<false>"

\* the operand of `!x`: undefined, null, 0, false and "" are falsy
Falsy(v) == v \in {Undef, JNull, JZero, JFalse, ""}

Truthy(v) == ~Falsy(v)

EmptyMap == [k \in {} |-> Undef]

\* { ...a, ...b }: the later spread wins
Spread(a, b) ==
  [k \in (DOMAIN a) \cup (DOMAIN b) |-> IF k \in DOMAIN b THEN b[k] ELSE a[k]]

----------------------------------------------------------------------------
\* Request bodies.

\* the `fields` member: its JS type and, for an object or an array, the
\* entries Object.entries enumerates (an array's keys are its indices)
FieldsMissing == [kind |-> "undefined", map |-> EmptyMap]
FieldsNull == [kind |-> "null", map |-> EmptyMap]
FieldsString == [kind |-> "string", map |-> EmptyMap]

FieldsArrays ==
  {[kind |-> "array", map |-> [k \in {"0"} |-> v]] : v \in {"", "Published"}}

FieldKeys == {"Title", "Status", "AirDate"}

\* values a caller submits under each key
KeyVals(k) ==
  CASE k = "Title" -> {"", "Ep12", "ep12"}
    [] k = "Status" -> {"", "Published", JNull, JZero, JFalse}
    [] OTHER -> {""}

FieldMaps ==
  {m \in UNION {[S -> UNION {KeyVals(k) : k \in FieldKeys}] : S \in SUBSET FieldKeys} :
     \A k \in DOMAIN m : m[k] \in KeyVals(k)}

FieldsObjects == {[kind |-> "object", map |-> m] : m \in FieldMaps}

FieldsVals ==
  {FieldsMissing, FieldsNull, FieldsString} \cup FieldsArrays \cup FieldsObjects

\* request.json() rejects
InvalidBody ==
  [kind |-> "invalid", table |-> Undef, title |-> Undef, matchField |-> Undef,
   matchValue |-> Undef, fields |-> FieldsMissing]

\* request.json() resolves to null
NullBody ==
  [kind |-> "null", table |-> Undef, title |-> Undef, matchField |-> Undef,
   matchValue |-> Undef, fields |-> FieldsMissing]

ObjectBodies ==
  [kind : {"object"},
   table : {Undef, "tblQKTuBRVrpJLmJp", "tblOther"},
   title : {Undef, "", "Ep12", "ep12"},
   matchField : {Undef, "Status"},
   matchValue : {Undef, "Published"},
   fields : FieldsVals]

Requests == {InvalidBody, NullBody} \cup ObjectBodies

\* the bodies of POST /api/airtable/get: { table, matchField, matchValue }
GetRequests ==
  {InvalidBody, NullBody} \cup
  [kind : {"object"},
   table : {Undef, "tblQKTuBRVrpJLmJp", "tblOther"},
   title : {Undef},
   matchField : {Undef, "Status"},
   matchValue : {Undef, "Published"},
   fields : {FieldsMissing}]

\* the requests of the calls of SpecSeq: well-formed upserts of one table
SeqRequests ==
  {r \in ObjectBodies :
     /\ r.table = "tblQKTuBRVrpJLmJp"
     /\ r.title \in {Undef, "Ep12"}
     /\ r.fields.kind = "object"
     /\ r.fields.map \in {EmptyMap, [k \in {"Status"} |-> "Published"],
                          [k \in {"Title"} |-> "ep12"]}}

\* the requests of the calls of SpecConc: upserts of one title, keyed by the
\* title or by a full matchField/matchValue pair
ConcRequests ==
  {r \in ObjectBodies :
     /\ r.table = "tblQKTuBRVrpJLmJp"
     /\ r.title = "Ep12"
     /\ (r.matchField = Undef) <=> (r.matchValue = Undef)
     /\ r.fields.kind = "object"
     /\ r.fields.map \in {EmptyMap, [k \in {"Status"} |-> "Published"],
                          [k \in {"Title"} |-> "ep12"],
                          [k \in {"Title", "Status"} |->
                             IF k = "Title" THEN "ep12" ELSE "Published"]}}

----------------------------------------------------------------------------
\* The handler's pure parts.

\* an allowlist that admits one more table
allowedTablesOpen == {"tblQKTuBRVrpJLmJp", "tblnn4fS7cSkcJW12", "tblOther"}

\* part_002:131-134
allowedTables == {"tblQKTuBRVrpJLmJp", "tblnn4fS7cSkcJW12"}

\* typeof fields
TypeOf(f) == IF f.kind \in {"null", "array", "object"} THEN "object" ELSE f.kind

\* !fields
FieldsFalsy(f) == f.kind \in {"undefined", "null"}

\* a shape check without the test of the identification
InvalidPayloadNoKey(r) ==
  \/ Falsy(r.table)
  \/ FieldsFalsy(r.fields)
  \/ TypeOf(r.fields) # "object"

\* the condition of the `if` at part_002:120
InvalidPayload(r) ==
  \/ Falsy(r.table)
  \/ FieldsFalsy(r.fields)
  \/ TypeOf(r.fields) # "object"
  \/ (Falsy(r.title) /\ (Falsy(r.matchField) \/ Falsy(r.matchValue)))

\* a filter on the truthiness of the value: filter(([_, value]) => value)
cleanedFieldsTruthy(f) ==
  [k \in {x \in DOMAIN f.map : Truthy(f.map[x])} |-> f.map[k]]

\* Object.fromEntries(Object.entries(fields).filter(([_, value]) => value !== ""))
cleanedFields(f) ==
  [k \in {x \in DOMAIN f.map : f.map[x] # ""} |-> f.map[k]]

\* the filter field of v1.2.0: always Title
filterFieldLegacy(r) == "Title"

\* matchField || "Title"
filterField(r) == IF Truthy(r.matchField) THEN r.matchField ELSE "Title"

\* a filter value that is lower-cased before use
filterValueLowerCase(r) ==
  LET v == IF Truthy(r.matchValue) THEN r.matchValue ELSE r.title
  IN IF v = "Ep12" THEN "ep12" ELSE IF v = "Published" THEN "published" ELSE v

\* matchValue || title
filterValue(r) == IF Truthy(r.matchValue) THEN r.matchValue ELSE r.title

\* a create of the cleaned fields alone
CreateFieldsNoTitle(title, cleaned) == cleaned

\* JSON.stringify of { Title: title, ...cleanedFields }: an undefined member
\* is not serialized
CreateFields(title, cleaned) ==
  Spread(IF title = Undef THEN EmptyMap ELSE [k \in {"Title"} |-> title], cleaned)

\* a check of the token alone
SecretsMissingTokenOnly(e) == ~e.AIRTABLE_TOKEN

\* !airtableToken || !airtableBaseId
SecretsMissing(e) == ~e.AIRTABLE_TOKEN \/ ~e.AIRTABLE_BASE_ID

\* the last of the returned matches
UpdateTargetLast(records) == records[Len(records)]

\* recordId = searchResult.records[0].id
UpdateTarget(records) == records[1]

\* names of the absent secrets, as joined at part_002:146-149
MissingSecrets(e) ==
  IF ~e.AIRTABLE_TOKEN /\ ~e.AIRTABLE_BASE_ID THEN "AIRTABLE_TOKEN, AIRTABLE_BASE_ID"
  ELSE IF ~e.AIRTABLE_TOKEN THEN "AIRTABLE_TOKEN"
  ELSE IF ~e.AIRTABLE_BASE_ID THEN "AIRTABLE_BASE_ID"
  ELSE ""

\* a reporter without the catch block: a failed delivery propagates
logToGrafanaRethrows(o) == IF o = "ok" THEN "returned" ELSE "thrown"

\* how a logToGrafana invocation ends for each behaviour of the sink:
\* a missing binding, a rejected fetch and the `throw` on !res.ok are all
\* raised inside the try block and end in its catch
logToGrafana(o) ==
  LET tried == IF o = "ok" THEN "returned" ELSE "thrown"
  IN IF tried = "thrown" THEN "returned" ELSE tried

----------------------------------------------------------------------------
\* State.

VARIABLES
  store,    \* the upstream base: the sequence of records, a record's id is its index
  env,      \* which bindings the worker's env has
  pc,       \* per call: the await the call is suspended at
  req,      \* per call: the request body
  net,      \* per call: the requests issued to the upstream record API
  events,   \* per call: the payloads logToGrafana was invoked with
  sink,     \* per call: how each delivery to the telemetry sink ended
  pending,  \* per call: the Response the handler returns once logToGrafana is back
  resp,     \* per call: the Response returned to the caller
  loc,      \* per call: cleanedFields, searchResult.records, recordId, operation, recordData
  route,    \* per call: the route of the request, "update" or "get"
  replies   \* per call: how the upstream answered each request of the call

vars == <<store, env, pc, req, net, events, sink, pending, resp, loc, route, replies>>

NoPayload ==
  [kind |-> "none", table |-> Undef, title |-> Undef, matchField |-> Undef,
   matchValue |-> Undef, fields |-> FieldsMissing]

NoResponse ==
  [status |-> 0, text |-> Undef, detail |-> Undef, recordId |-> 0, fields |-> EmptyMap]

NoLocals ==
  [cleanedFields |-> EmptyMap, records |-> <<>>, recordId |-> 0, operation |-> Undef,
   recordData |-> EmptyMap]

\* new Response(text, { status })
TextResponse(st, text, detail) ==
  [status |-> st, text |-> text, detail |-> detail, recordId |-> 0, fields |-> EmptyMap]

\* new Response(JSON.stringify({ success: true, recordId, fields: recordData }))
\* a success response that names no record
SuccessResponseNoId(id, data) ==
  [status |-> 200, text |-> "success", detail |-> Undef, recordId |-> 0, fields |-> data]

SuccessResponse(id, data) ==
  [status |-> 200, text |-> "success", detail |-> Undef, recordId |-> id, fields |-> data]

\* a payload whose level is info whatever the call site passes
EventLevelInfo(level, message, service, r, operation, status, responseBody, error, payload) ==
  [level |-> "info", message |-> message, source |-> "gr8r-airtable-worker",
   service |-> service, table |-> r.table, title |-> r.title,
   operation |-> operation, status |-> status, responseBody |-> responseBody,
   error |-> error, originalPayload |-> payload]

\* the payload logToGrafana builds from (level, message, meta)
Event(level, message, service, r, operation, status, responseBody, error, payload) ==
  [level |-> level, message |-> message, source |-> "gr8r-airtable-worker",
   service |-> service, table |-> r.table, title |-> r.title,
   operation |-> operation, status |-> status, responseBody |-> responseBody,
   error |-> error, originalPayload |-> payload]

\* a request to the upstream record API
UpstreamCall(method, table, field, value, id, fields) ==
  [method |-> method, table |-> table, field |-> field, value |-> value,
   id |-> id, fields |-> fields]

\* records the upstream store may hold before the first call
InitRecords ==
  {[table |-> "tblQKTuBRVrpJLmJp",
    fields |-> [k \in {"Title", "Status"} |-> IF k = "Title" THEN "Ep12" ELSE "Published"]],
   [table |-> "tblQKTuBRVrpJLmJp", fields |-> [k \in {"Title"} |-> "ep12"]]}

InitStores == UNION {[1..n -> InitRecords] : n \in 0..MaxInitRecords}

Envs == [AIRTABLE_TOKEN : BOOLEAN, AIRTABLE_BASE_ID : BOOLEAN, GRAFANA_WORKER : BOOLEAN]

Init ==
  /\ store \in InitStores
  /\ env \in Envs
  /\ pc = [c \in Calls |-> "idle"]
  /\ req = [c \in Calls |-> NoPayload]
  /\ net = [c \in Calls |-> <<>>]
  /\ events = [c \in Calls |-> <<>>]
  /\ sink = [c \in Calls |-> <<>>]
  /\ pending = [c \in Calls |-> NoResponse]
  /\ resp = [c \in Calls |-> NoResponse]
  /\ loc = [c \in Calls |-> NoLocals]
  /\ route = [c \in Calls |-> "none"]
  /\ replies = [c \in Calls |-> <<>>]

----------------------------------------------------------------------------
\* The upstream record API.

\* ids of the records of table t that satisfy {f} = "v"
Matches(t, f, v) ==
  {i \in 1..Len(store) :
     /\ store[i].table = t
     /\ f \in DOMAIN store[i].fields
     /\ store[i].fields[f] = v}

\* the orders in which the upstream may list a set of records
Orderings(S) ==
  {s \in [1..Cardinality(S) -> S] : \A i, j \in DOMAIN s : i # j => s[i] # s[j]}

\* a write that replaces the fields of the record by the fields sent
PatchedReplace(rec, fields) == [rec EXCEPT !.fields = fields]

\* PATCH: the named fields change, the others are left untouched
Patched(rec, fields) == [rec EXCEPT !.fields = Spread(rec.fields, fields)]

\* how the upstream may answer a request: a success status with a JSON body
\* ("ok"), a non-success status with a JSON error body ("fail"), a
\* non-success status with a body that is not JSON ("failtext"), or no
\* answer the handler can read ("reject": fetch or response.json() rejects)
UpstreamReplies == {"ok", "fail", "failtext", "reject"}

\* the outcomes of a delivery to the telemetry sink the env allows
SinkOutcomes(e) == IF e.GRAFANA_WORKER THEN {"ok", "nonok", "reject"} ELSE {"nobinding"}

----------------------------------------------------------------------------
\* The handler of POST /api/airtable/update.

\* a call site that invokes the reporter twice
ReportTwice(c, ev, rsp) ==
  /\ events' = [events EXCEPT ![c] = Append(Append(@, ev), ev)]
  /\ pending' = [pending EXCEPT ![c] = rsp]
  /\ pc' = [pc EXCEPT ![c] = "report"]

\* await logToGrafana(env, level, message, meta); return new Response(...):
\* the reporter is invoked with the event and the call is suspended in it
Report(c, ev, rsp) ==
  /\ events' = [events EXCEPT ![c] = Append(@, ev)]
  /\ pending' = [pending EXCEPT ![c] = rsp]
  /\ pc' = [pc EXCEPT ![c] = "report"]

\* the catch block at part_002:248-256; body is what `body` holds by then
Catch(c, message, body) ==
  Report(c,
         Event("error", "Unexpected Airtable worker error", "unhandled",
               NoPayload, Undef, 0, Undef, message, body),
         TextResponse(500, "Unexpected error", message))

\* a fetch that issues its request twice
FetchTwice(c, call, at) ==
  /\ net' = [net EXCEPT ![c] = Append(Append(@, call), call)]
  /\ pc' = [pc EXCEPT ![c] = at]

\* await fetch(...): the request is issued and the call is suspended on it
Fetch(c, call, at) ==
  /\ net' = [net EXCEPT ![c] = Append(@, call)]
  /\ pc' = [pc EXCEPT ![c] = at]

\* part_002:115-173: parse the body, validate, check the table and the
\* secrets, clean the fields, issue the search
UpdateRequest(c, R) ==
  /\ pc[c] = "idle"
  /\ route' = [route EXCEPT ![c] = "update"]
  /\ \E r \in R :
       /\ req' = [req EXCEPT ![c] = r]
       /\ IF r.kind = "invalid"
          THEN Catch(c, "Unexpected token in JSON", NullBody) /\ UNCHANGED <<net, loc>>
          ELSE IF r.kind = "null"
          THEN Catch(c, "Cannot destructure property 'table' of 'body' as it is null.",
                     NullBody) /\ UNCHANGED <<net, loc>>
          ELSE IF InvalidPayload(r)
          THEN /\ Report(c,
                         Event("error", "Missing or invalid payload fields", "validation",
                               r, Undef, 0, Undef, Undef, NoPayload),
                         TextResponse(400, "Missing or invalid fields", Undef))
               /\ UNCHANGED <<net, loc>>
          ELSE IF r.table \notin allowedTables
          THEN /\ Report(c,
                         Event("error", "Invalid table name", "validation",
                               r, Undef, 0, Undef, Undef, NoPayload),
                         TextResponse(403, "Invalid table", Undef))
               /\ UNCHANGED <<net, loc>>
          ELSE IF SecretsMissing(env)
          THEN /\ Report(c,
                         Event("error", "Missing required secrets", "secrets",
                               NoPayload, Undef, 0, Undef, Undef, NoPayload),
                         TextResponse(500, "Missing required secret(s)", MissingSecrets(env)))
               /\ UNCHANGED <<net, loc>>
          ELSE /\ Fetch(c, UpstreamCall("GET", r.table, filterField(r), filterValue(r),
                                        0, EmptyMap), "search")
               /\ loc' = [loc EXCEPT ![c].cleanedFields = cleanedFields(r.fields)]
               /\ UNCHANGED <<events, pending>>
  /\ UNCHANGED <<store, env, sink, resp, replies>>

\* part_002:174-223: the search comes back; on success the create or the
\* update is issued
SearchResponse(c) ==
  /\ pc[c] = "search"
  /\ \E o \in UpstreamReplies \cup {"norecords"} :
     /\ replies' = [replies EXCEPT ![c] = Append(@, o)]
     /\ CASE o = "reject" ->
              /\ Catch(c, "fetch failed", req[c])
              /\ UNCHANGED <<net, loc>>
         [] o = "failtext" ->
              /\ Catch(c, "Unexpected token < in JSON at position 0", req[c])
              /\ UNCHANGED <<net, loc>>
         [] o = "fail" ->
              /\ Report(c,
                        Event("error", "Airtable search failed", "airtable-search",
                              req[c], Undef, 422, "upstream error body", Undef, NoPayload),
                        TextResponse(500, "Airtable search failed", Undef))
              /\ UNCHANGED <<net, loc>>
         [] o = "norecords" ->
              /\ Catch(c,
                       "Cannot read properties of undefined (reading 'length')", req[c])
              /\ UNCHANGED <<net, loc>>
         [] OTHER ->
              \E records \in Orderings(Matches(req[c].table, filterField(req[c]),
                                               filterValue(req[c]))) :
                IF Len(records) = 0
                THEN /\ Fetch(c, UpstreamCall("POST", req[c].table, Undef, Undef, 0,
                                              CreateFields(req[c].title, loc[c].cleanedFields)),
                           "create")
                     /\ loc' = [loc EXCEPT ![c].records = records]
                     /\ UNCHANGED <<events, pending>>
                ELSE /\ Fetch(c, UpstreamCall("PATCH", req[c].table, Undef, Undef,
                                              UpdateTarget(records), loc[c].cleanedFields),
                           "update")
                     /\ loc' = [loc EXCEPT ![c].records = records,
                                           ![c].recordId = UpdateTarget(records)]
                     /\ UNCHANGED <<events, pending>>
  /\ UNCHANGED <<store, env, req, sink, resp, route>>

\* part_002:200-213 and 240-247: the create comes back
CreateResponse(c) ==
  /\ pc[c] = "create"
  /\ LET call == net[c][Len(net[c])] IN
     \E o \in UpstreamReplies :
     /\ replies' = [replies EXCEPT ![c] = Append(@, o)]
     /\ CASE o = "reject" ->
              /\ Catch(c, "fetch failed", req[c])
              /\ UNCHANGED <<store, loc>>
         [] o = "failtext" ->
              /\ Catch(c, "Unexpected token < in JSON at position 0", req[c])
              /\ UNCHANGED <<store, loc>>
         [] o = "fail" ->
              /\ Report(c,
                        Event("error", "Airtable create failed", "airtable-create",
                              req[c], Undef, 422, "upstream error body", Undef, NoPayload),
                        TextResponse(500, "Airtable create failed", Undef))
              /\ UNCHANGED <<store, loc>>
         [] OTHER ->
              /\ store' = Append(store, [table |-> call.table, fields |-> call.fields])
              /\ loc' = [loc EXCEPT ![c].recordId = Len(store) + 1,
                                    ![c].recordData = call.fields,
                                    ![c].operation = "create"]
              /\ Report(c,
                        Event("info", "Airtable create successful", "airtable-create",
                              req[c], "create", 0, Undef, Undef, NoPayload),
                        SuccessResponse(Len(store) + 1, call.fields))
  /\ UNCHANGED <<env, req, net, sink, resp, route>>

\* part_002:225-247: the update comes back; the upstream echoes the record
\* or the fields it was sent
UpdateResponse(c) ==
  /\ pc[c] = "update"
  /\ LET call == net[c][Len(net[c])] IN
     \E o \in UpstreamReplies :
     /\ replies' = [replies EXCEPT ![c] = Append(@, o)]
     /\ CASE o = "reject" ->
              /\ Catch(c, "fetch failed", req[c])
              /\ UNCHANGED <<store, loc>>
         [] o = "failtext" ->
              /\ Catch(c, "Unexpected token < in JSON at position 0", req[c])
              /\ UNCHANGED <<store, loc>>
         [] o = "fail" ->
              /\ Report(c,
                        Event("error", "Airtable update failed", "airtable-update",
                              req[c], Undef, 422, "upstream error body", Undef, NoPayload),
                        TextResponse(500, "Airtable update failed", Undef))
              /\ UNCHANGED <<store, loc>>
         [] OTHER ->
              \E echo \in {Patched(store[call.id], call.fields).fields, call.fields} :
                /\ store' = [store EXCEPT ![call.id] = Patched(@, call.fields)]
                /\ loc' = [loc EXCEPT ![c].recordData = echo,
                                      ![c].operation = "update"]
                /\ Report(c,
                          Event("info", "Airtable update successful", "airtable-update",
                                req[c], "update", 0, Undef, Undef, NoPayload),
                          SuccessResponse(loc[c].recordId, echo))
  /\ UNCHANGED <<env, req, net, sink, resp, route>>

\* a reporter that delivers again until the sink accepts the event
GrafanaResponseRetries(c) ==
  /\ pc[c] = "report"
  /\ \E o \in SinkOutcomes(env) :
       /\ sink' = [sink EXCEPT ![c] = Append(@, o)]
       /\ IF o = "ok"
          THEN /\ resp' = [resp EXCEPT ![c] = pending[c]]
               /\ pc' = [pc EXCEPT ![c] = "done"]
          ELSE UNCHANGED <<resp, pc>>
       /\ UNCHANGED <<events, pending>>
  /\ UNCHANGED <<store, env, req, net, loc, route, replies>>

\* logToGrafana comes back (part_002:313-329) and the handler returns the
\* Response; an exception out of logToGrafana would reach the catch block of
\* the handler, and from inside that block it would leave the handler
\* without a Response
GrafanaResponse(c) ==
  /\ pc[c] = "report"
  /\ \E o \in SinkOutcomes(env) :
       /\ sink' = [sink EXCEPT ![c] = Append(@, o)]
       /\ IF logToGrafana(o) = "returned"
          THEN /\ resp' = [resp EXCEPT ![c] = pending[c]]
               /\ pc' = [pc EXCEPT ![c] = "done"]
               /\ UNCHANGED <<events, pending>>
          ELSE IF route[c] = "update" /\ events[c][Len(events[c])].service # "unhandled"
          THEN /\ Catch(c, "Grafana log failed",
                        IF req[c].kind = "invalid" THEN NullBody ELSE req[c])
               /\ UNCHANGED resp
          ELSE /\ pc' = [pc EXCEPT ![c] = "threw"]
               /\ UNCHANGED <<events, pending, resp>>
  /\ UNCHANGED <<store, env, req, net, loc, route, replies>>

----------------------------------------------------------------------------
\* The handler of POST /api/airtable/get.

\* the catch block at part_002:286-295
GetCatch(c, message) ==
  Report(c,
         Event("error", "Airtable GET error", "airtable-get",
               NoPayload, Undef, 0, Undef, message, NoPayload),
         TextResponse(500, "Error retrieving Airtable records", Undef))

\* part_002:260-278: parse the body, check the three members, issue the search
GetRequest(c, R) ==
  /\ pc[c] = "idle"
  /\ route' = [route EXCEPT ![c] = "get"]
  /\ \E r \in R :
       /\ req' = [req EXCEPT ![c] = r]
       /\ IF r.kind = "invalid"
          THEN GetCatch(c, "Unexpected token in JSON") /\ UNCHANGED <<net, resp>>
          ELSE IF r.kind = "null"
          THEN GetCatch(c, "Cannot destructure property 'table' of 'body' as it is null.")
               /\ UNCHANGED <<net, resp>>
          ELSE IF Falsy(r.table) \/ Falsy(r.matchField) \/ Falsy(r.matchValue)
          THEN /\ resp' = [resp EXCEPT ![c] = TextResponse(400, "Missing required fields", Undef)]
               /\ pc' = [pc EXCEPT ![c] = "done"]
               /\ UNCHANGED <<net, events, pending>>
          ELSE /\ Fetch(c, UpstreamCall("GET", r.table, r.matchField, r.matchValue,
                                        0, EmptyMap), "get")
               /\ UNCHANGED <<events, pending, resp>>
  /\ UNCHANGED <<store, env, sink, loc, replies>>

\* part_002:280-284: the search comes back and its body and status are
\* passed on to the caller
GetResponse(c) ==
  /\ pc[c] = "get"
  /\ \E o \in UpstreamReplies :
       /\ replies' = [replies EXCEPT ![c] = Append(@, o)]
       /\ CASE o = "reject" ->
                /\ GetCatch(c, "fetch failed")
                /\ UNCHANGED <<resp, loc>>
           [] o = "failtext" ->
                /\ GetCatch(c, "Unexpected token < in JSON at position 0")
                /\ UNCHANGED <<resp, loc>>
           [] o = "fail" ->
                /\ resp' = [resp EXCEPT ![c] = TextResponse(422, "upstream error body", Undef)]
                /\ pc' = [pc EXCEPT ![c] = "done"]
                /\ UNCHANGED <<events, pending, loc>>
           [] OTHER ->
                \E records \in Orderings(Matches(req[c].table, req[c].matchField,
                                                 req[c].matchValue)) :
                  /\ resp' = [resp EXCEPT ![c] = TextResponse(200, "upstream records", Undef)]
                  /\ loc' = [loc EXCEPT ![c].records = records]
                  /\ pc' = [pc EXCEPT ![c] = "done"]
                  /\ UNCHANGED <<events, pending>>
  /\ UNCHANGED <<store, env, req, net, sink, route>>

----------------------------------------------------------------------------
\* Specifications.

\* one call, any request, from any initial store
Next ==
  \/ UpdateRequest(1, Requests)
  \/ SearchResponse(1)
  \/ CreateResponse(1)
  \/ UpdateResponse(1)
  \/ GrafanaResponse(1)

Spec == Init /\ [][Next]_vars

\* the calls handled one after the other, each an upsert of the same table
NextSeq ==
  \E c \in Calls :
    \/ (\A d \in 1..(c - 1) : pc[d] = "done") /\ UpdateRequest(c, SeqRequests)
    \/ SearchResponse(c)
    \/ CreateResponse(c)
    \/ UpdateResponse(c)
    \/ GrafanaResponse(c)

\* the secrets are bound in the env of the calls of SpecSeq
InitSeq == Init /\ env.AIRTABLE_TOKEN /\ env.AIRTABLE_BASE_ID

SpecSeq == InitSeq /\ [][NextSeq]_vars

\* two calls in flight at once: the runtime interleaves them at every await
NextConc ==
  \E c \in Calls :
    \/ UpdateRequest(c, ConcRequests)
    \/ SearchResponse(c)
    \/ CreateResponse(c)
    \/ UpdateResponse(c)
    \/ GrafanaResponse(c)

SpecConc == InitSeq /\ [][NextConc]_vars

\* one call on either route
NextAll ==
  \/ UpdateRequest(1, Requests)
  \/ GetRequest(1, GetRequests)
  \/ SearchResponse(1)
  \/ CreateResponse(1)
  \/ UpdateResponse(1)
  \/ GetResponse(1)
  \/ GrafanaResponse(1)

SpecAll == Init /\ [][NextAll]_vars

\* every network call of the handler eventually returns or throws
Fairness ==
  /\ WF_vars(SearchResponse(1))
  /\ WF_vars(CreateResponse(1))
  /\ WF_vars(UpdateResponse(1))
  /\ WF_vars(GetResponse(1))
  /\ WF_vars(GrafanaResponse(1))

SpecLive == SpecAll /\ Fairness

----------------------------------------------------------------------------
\* Properties.

\* C1: two upserts run one after the other with the same body, both
\* succeeding, the first finding no record for the key: the first creates,
\* the second updates, and both answer with the same recordId.
C1_Idempotence ==
  (/\ pc[1] = "done" /\ pc[2] = "done"
   /\ req[1] = req[2]
   /\ resp[1].status = 200 /\ resp[2].status = 200
   /\ loc[1].records = <<>>)
  => (/\ loc[1].operation = "create"
      /\ loc[2].operation = "update"
      /\ resp[1].recordId = resp[2].recordId)

C3_OneEventPerCall ==
  \A c \in Calls :
    /\ Len(events[c]) <= 1
    /\ pc[c] = "done" => Len(events[c]) = 1

C3_Witness ==
  /\ pc[1] = "done"
  /\ resp[1].status = 200
  /\ Len(events[1]) = 1
  /\ events[1][1].level = "info"

\* C4: whatever the sink does with the event, the step in which the reporter
\* comes back ends the call with the Response that was fixed before the
\* delivery, and adds no upstream request and no write.
C4_TelemetryNonInterference ==
  [][\A c \in Calls :
       (pc[c] = "report" /\ sink'[c] # sink[c])
       => (/\ pc'[c] = "done"
           /\ resp'[c] = pending[c]
           /\ net'[c] = net[c]
           /\ store' = store)]_vars

C4_Witness ==
  /\ pc[1] = "done"
  /\ sink[1] = <<"reject">>
  /\ resp[1].status = 200
  /\ Len(net[1]) = 2

\* C5: a key submitted with the empty string is never sent with the empty
\* string in the POST or the PATCH of the call.
C5_NoEmptyStringUpstream ==
  \A c \in Calls :
    \A i \in 1..Len(net[c]) :
      net[c][i].method \in {"POST", "PATCH"} =>
        \A k \in DOMAIN req[c].fields.map :
          req[c].fields.map[k] = "" =>
            ~(k \in DOMAIN net[c][i].fields /\ net[c][i].fields[k] = "")

\* C6: the cleaned fields of a call hold exactly the submitted entries whose
\* value is not the empty string, with the submitted value.
C6_SanitizerExact ==
  \A c \in Calls :
    Len(net[c]) > 0 =>
      LET m == req[c].fields.map
          cl == loc[c].cleanedFields
      IN \A k \in FieldKeys \cup {"0"} :
           /\ (k \in DOMAIN cl) <=> (k \in DOMAIN m /\ m[k] # "")
           /\ (k \in DOMAIN cl) => cl[k] = m[k]

C6_Witness ==
  /\ Len(net[1]) > 0
  /\ req[1].fields.map = [k \in {"Status", "AirDate"} |-> IF k = "Status" THEN JZero ELSE ""]
  /\ loc[1].cleanedFields = [k \in {"Status"} |-> JZero]

\* C7: when matchField and matchValue are both supplied, the search filters
\* on exactly that pair, also when a title is supplied.
C7_MatchPairWins ==
  \A c \in Calls :
    (Len(net[c]) > 0 /\ Truthy(req[c].matchField) /\ Truthy(req[c].matchValue))
    => (/\ net[c][1].method = "GET"
        /\ net[c][1].field = req[c].matchField
        /\ net[c][1].value = req[c].matchValue)

C7_Witness ==
  /\ Len(net[1]) > 0
  /\ req[1].title = "Ep12"
  /\ req[1].matchField = "Status"
  /\ req[1].matchValue = "Published"
  /\ net[1][1].field = "Status"
  /\ net[1][1].value = "Published"

\* C8: when matchField and matchValue are not both supplied, the search
\* filters on Title with the title as value.
C8_FallbackAllOrNothing ==
  \A c \in Calls :
    (Len(net[c]) > 0 /\ ~(Truthy(req[c].matchField) /\ Truthy(req[c].matchValue)))
    => (/\ net[c][1].field = "Title"
        /\ net[c][1].value = req[c].title)

\* C9: when only a title identifies the record, the search filters on Title
\* with the title as submitted.
C9_TitleOnly ==
  \A c \in Calls :
    (Len(net[c]) > 0 /\ req[c].matchField = Undef /\ req[c].matchValue = Undef)
    => (/\ net[c][1].method = "GET"
        /\ net[c][1].field = "Title"
        /\ net[c][1].value = req[c].title)

C9_Witness ==
  /\ Len(net[1]) > 0
  /\ req[1].title = "Ep12"
  /\ req[1].matchField = Undef
  /\ req[1].matchValue = Undef
  /\ net[1][1].field = "Title"
  /\ net[1][1].value = "Ep12"

\* C10: a call whose fields is missing, null, a scalar or an array issues no
\* upstream request and is answered 400.
C10_FieldsMustBeObject ==
  \A c \in Calls :
    (req[c].kind = "object" /\ req[c].fields.kind # "object")
    => (/\ net[c] = <<>>
        /\ pc[c] = "done" => resp[c].status = 400)

\* C11: an upsert with no title and without both matchField and matchValue
\* issues no upstream request, reports one error event of service
\* "validation" and is answered 400; a call that issued the search has a
\* title or both matchField and matchValue.
C11_IdentificationRequired ==
  \A c \in Calls :
    route[c] = "update" =>
      /\ (req[c].kind = "object" /\ Falsy(req[c].title)
          /\ (Falsy(req[c].matchField) \/ Falsy(req[c].matchValue)))
         => (/\ net[c] = <<>>
             /\ \A i \in DOMAIN events[c] :
                  events[c][i].level = "error" /\ events[c][i].service = "validation"
             /\ pc[c] = "done" => (resp[c].status = 400 /\ Len(events[c]) = 1))
      /\ Len(net[c]) > 0
         => (Truthy(req[c].title)
             \/ (Truthy(req[c].matchField) /\ Truthy(req[c].matchValue)))

C11_Witness ==
  /\ pc[1] = "done"
  /\ req[1].table = "tblQKTuBRVrpJLmJp"
  /\ req[1].fields.kind = "object"
  /\ req[1].title = Undef
  /\ req[1].matchField = "Status"
  /\ req[1].matchValue = Undef
  /\ resp[1].status = 400
  /\ events[1][1].service = "validation"
  /\ net[1] = <<>>

\* C12: an upsert that is malformed (fields missing or not a key-value
\* object, or no identification) and names a table outside the allowlist is
\* answered 400; only a well-shaped upsert is answered 403.
C12_ShapeBeforeAllowlist ==
  \A c \in Calls :
    (route[c] = "update" /\ req[c].kind = "object" /\ pc[c] = "done") =>
      LET malformed ==
            \/ req[c].fields.kind # "object"
            \/ (Falsy(req[c].title)
                /\ (Falsy(req[c].matchField) \/ Falsy(req[c].matchValue)))
      IN /\ (malformed /\ req[c].table \notin {"tblQKTuBRVrpJLmJp", "tblnn4fS7cSkcJW12"})
            => resp[c].status = 400
         /\ resp[c].status = 403 => ~malformed

\* C13: when the search comes back with a non-success status, the call
\* issues no create and no update, reports one error event whose service
\* ends in "-search" with the upstream status and body, and is answered 500.
C13_SearchFailure ==
  \A c \in Calls :
    (route[c] = "update" /\ Len(replies[c]) > 0
     /\ replies[c][1] \in {"fail", "failtext"})
    => (/\ Len(net[c]) = 1
        /\ Len(events[c]) = 1
        /\ events[c][1].level = "error"
        /\ events[c][1].service \in {"airtable-search", "tblQKTuBRVrpJLmJp-search"}
        /\ events[c][1].status = 422
        /\ events[c][1].responseBody # Undef
        /\ pc[c] = "done" => resp[c].status = 500)

\* C14: the fields of every POST are the sanitized fields together with
\* Title, and Title is the title of the request, also when the submitted
\* fields hold a Title of their own.
C14_CreateBody ==
  \A c \in Calls :
    \A i \in DOMAIN net[c] :
      net[c][i].method = "POST" =>
        LET body == net[c][i].fields
            m == req[c].fields.map
        IN /\ req[c].title # Undef
              => ("Title" \in DOMAIN body /\ body["Title"] = req[c].title)
           /\ \A k \in (FieldKeys \cup {"0"}) \ {"Title"} :
                /\ (k \in DOMAIN body) <=> (k \in DOMAIN m /\ m[k] # "")
                /\ (k \in DOMAIN body) => body[k] = m[k]

\* C15: after a successful search the call issues exactly one write: a POST
\* when the search returned no record, otherwise a PATCH of the first
\* returned record whose body is the sanitized fields; the returned records
\* are the records that match the filter, however many they are.
C15_DecisionByCardinality ==
  \A c \in Calls :
    (route[c] = "update" /\ Len(replies[c]) > 0 /\ replies[c][1] = "ok") =>
      LET recs == loc[c].records
          m == req[c].fields.map
          w == net[c][2]
      IN /\ Len(net[c]) = 2
         /\ pc[c] \in {"create", "update"}
            => {recs[i] : i \in DOMAIN recs}
               = Matches(net[c][1].table, net[c][1].field, net[c][1].value)
         /\ IF Len(recs) = 0
            THEN w.method = "POST"
            ELSE /\ w.method = "PATCH"
                 /\ w.id = recs[1]
                 /\ \A k \in FieldKeys \cup {"0"} :
                      /\ (k \in DOMAIN w.fields) <=> (k \in DOMAIN m /\ m[k] # "")
                      /\ (k \in DOMAIN w.fields) => w.fields[k] = m[k]

C15_Witness ==
  /\ pc[1] = "done"
  /\ resp[1].status = 200
  /\ loc[1].records = <<2, 1>>
  /\ net[1][2].method = "PATCH"
  /\ net[1][2].id = 2
  /\ req[1].title = "Ep12"
  /\ "Title" \notin DOMAIN net[1][2].fields

\* C16: when the create comes back with a non-success status and an error
\* body, one error event whose service ends in "-create" carries the
\* status and the body, and the call is answered 500 with the upstream
\* error detail in the body of the Response.
C16_CreateFailure ==
  \A c \in Calls :
    (route[c] = "update" /\ Len(replies[c]) = 2 /\ replies[c][2] = "fail"
     /\ net[c][2].method = "POST")
    => (/\ Len(events[c]) = 1
        /\ events[c][1].level = "error"
        /\ events[c][1].service \in {"airtable-create", "tblQKTuBRVrpJLmJp-create"}
        /\ events[c][1].status = 422
        /\ events[c][1].responseBody = "upstream error body"
        /\ pc[c] = "done"
           => (resp[c].status = 500 /\ resp[c].detail = "upstream error body"))

\* C17: when the body is not valid JSON or null, a network call throws, a
\* reply cannot be parsed or a successful search has no records list, the
\* call reports one error event of service "unhandled" with the error
\* message and the request payload, and is answered 500 with the message.
C17_UnhandledBoundary ==
  \A c \in Calls :
    (/\ route[c] = "update"
     /\ \/ req[c].kind \in {"invalid", "null"}
        \/ \E i \in DOMAIN replies[c] :
             replies[c][i] \in {"reject", "failtext", "norecords"})
    => (/\ Len(events[c]) = 1
        /\ events[c][1].level = "error"
        /\ events[c][1].service = "unhandled"
        /\ events[c][1].error # Undef
        /\ events[c][1].originalPayload = req[c]
        /\ pc[c] = "done"
           => (resp[c].status = 500 /\ resp[c].detail = events[c][1].error))

\* C18: provided every network call eventually returns or throws, every
\* call that has started, upsert or lookup, reaches the state in which its
\* response has been returned, and a response once returned is never
\* replaced by another.
C18_EveryCallEnds ==
  /\ \A c \in Calls :
       (pc[c] # "idle") ~> (pc[c] = "done" /\ resp[c] # NoResponse)
  /\ [][\A c \in Calls : resp[c] # NoResponse => resp'[c] = resp[c]]_vars

\* a lookup whose upstream call threw and whose telemetry call threw has
\* been answered
C18_Witness ==
  /\ route[1] = "get"
  /\ replies[1] = <<"reject">>
  /\ sink[1] = <<"reject">>
  /\ pc[1] = "done"
  /\ resp[1].status = 500

\* C19: two upserts in flight with the same table and the same title as
\* key, neither sending a Title field of its own: when both searches came
\* back with no record and both creates succeeded, the calls created two
\* different records and two records of the table bear the key.
C19_LookupThenWriteRace ==
  (/\ \A c \in Calls :
        /\ route[c] = "update"
        /\ req[c].matchField = Undef
        /\ req[c].matchValue = Undef
        /\ "Title" \notin DOMAIN req[c].fields.map
        /\ replies[c] = <<"ok", "ok">>
        /\ loc[c].records = <<>>
        /\ net[c][2].method = "POST"
   /\ req[1].table = req[2].table
   /\ req[1].title = req[2].title)
  => (/\ loc[1].recordId # loc[2].recordId
      /\ Cardinality(Matches(req[1].table, "Title", req[1].title)) >= 2)

\* both calls have been answered with a created record of key "Ep12" that
\* neither search had found, and the table holds two records of that key
C19_Witness ==
  /\ \A c \in Calls :
       /\ req[c].table = "tblQKTuBRVrpJLmJp"
       /\ req[c].title = "Ep12"
       /\ req[c].matchField = Undef
       /\ req[c].matchValue = Undef
       /\ loc[c].records = <<>>
       /\ loc[c].operation = "create"
       /\ pc[c] = "done"
       /\ resp[c].status = 200
  /\ Cardinality(Matches("tblQKTuBRVrpJLmJp", "Title", "Ep12")) = 2

\* C20: an upsert with a well-shaped body and an allowed table, handled
\* while the API token or the base identifier is not bound, reports one
\* error event, is answered 500 and issues no request to the upstream.
C20_MissingCredential ==
  \A c \in Calls :
    (/\ route[c] = "update"
     /\ req[c].kind = "object"
     /\ ~InvalidPayload(req[c])
     /\ req[c].table \in {"tblQKTuBRVrpJLmJp", "tblnn4fS7cSkcJW12"}
     /\ (~env.AIRTABLE_TOKEN \/ ~env.AIRTABLE_BASE_ID))
    => (/\ net[c] = <<>>
        /\ Len(events[c]) = 1
        /\ events[c][1].level = "error"
        /\ pc[c] = "done" => resp[c].status = 500)

\* a valid upsert has been answered 500 with the token bound and the base
\* identifier not
C20_Witness ==
  /\ route[1] = "update"
  /\ req[1].kind = "object"
  /\ ~InvalidPayload(req[1])
  /\ req[1].table = "tblQKTuBRVrpJLmJp"
  /\ env.AIRTABLE_TOKEN
  /\ ~env.AIRTABLE_BASE_ID
  /\ net[1] = <<>>
  /\ Len(events[1]) = 1
  /\ pc[1] = "done"
  /\ resp[1].status = 500

\* C21: no call, upsert or lookup, ever issues a request to the upstream
\* for a table outside the allowlist.
C21_AllowlistBeforeNetwork ==
  \A c \in Calls :
    \A i \in DOMAIN net[c] :
      net[c][i].table \in {"tblQKTuBRVrpJLmJp", "tblnn4fS7cSkcJW12"}

\* C22: a lookup, and an upsert that is stopped by the shape check, by the
\* allowlist, by a missing secret or by a search that did not succeed,
\* issue GET requests only; and a step after which no call has issued a
\* POST or a PATCH leaves every record of the store as it was.
C22_NoWriteNoChange ==
  /\ [](\A c \in Calls :
          (\/ route[c] = "get"
           \/ /\ route[c] = "update"
              /\ \/ req[c].kind = "object"
                    /\ req[c].table \notin {"tblQKTuBRVrpJLmJp", "tblnn4fS7cSkcJW12"}
                 \/ events[c] # <<>>
                    /\ events[c][1].service \in {"validation", "secrets", "airtable-search"}
                 \/ replies[c] # <<>> /\ replies[c][1] # "ok")
          => \A i \in DOMAIN net[c] : net[c][i].method = "GET")
  /\ [][(\A c \in Calls : \A i \in DOMAIN net'[c] : net'[c][i].method = "GET")
        => store' = store]_vars

\* a lookup of a stored record has been answered with the upstream's records
C22_Witness ==
  /\ route[1] = "get"
  /\ pc[1] = "done"
  /\ resp[1].status = 200
  /\ Len(loc[1].records) > 0
  /\ Len(net[1]) = 1

\* C23: an upsert issues its search only for a body that passed the shape
\* check, at most one search and after it at most one write (a POST or a
\* PATCH), the write only once the search was answered with success, the
\* info event only once the write was answered with success, and it never
\* has two requests in flight, the telemetry call included.
C23_StagesInOrder ==
  \A c \in Calls :
    route[c] = "update"
    => (/\ Len(net[c]) <= 2
        /\ net[c] # <<>>
           => (req[c].kind = "object" /\ ~InvalidPayload(req[c])
               /\ net[c][1].method = "GET")
        /\ Len(net[c]) = 2
           => (net[c][2].method \in {"POST", "PATCH"}
               /\ replies[c] # <<>> /\ replies[c][1] = "ok")
        /\ (\E i \in DOMAIN events[c] : events[c][i].level = "info")
           => (Len(replies[c]) = 2 /\ replies[c][2] = "ok")
        /\ Len(replies[c]) <= Len(net[c])
        /\ Len(net[c]) <= Len(replies[c]) + 1
        /\ pc[c] \in {"report", "done"} => Len(replies[c]) = Len(net[c])
        /\ Len(sink[c]) <= Len(events[c])
        /\ Len(events[c]) <= Len(sink[c]) + 1)

\* an upsert that searched, patched the record found and reported the update
C23_Witness ==
  /\ route[1] = "update"
  /\ Len(net[1]) = 2
  /\ net[1][1].method = "GET"
  /\ net[1][2].method = "PATCH"
  /\ replies[1] = <<"ok", "ok">>
  /\ Len(events[1]) = 1
  /\ events[1][1].level = "info"
  /\ pc[1] = "done"

\* C24: a step never removes a record and adds at most one, and only as the
\* one create of a call; a stored record changes only as the target of an
\* update that is answered, and then it keeps its table and all its
\* fields, and a field that is new or has a new value is one the caller
\* submitted with a value other than the empty string, and holds that value.
C24_UpdateFrame ==
  [][/\ Len(store') >= Len(store)
     /\ Len(store') <= Len(store) + 1
     /\ Len(store') = Len(store) + 1
        => \E c \in Calls :
             /\ pc[c] = "create"
             /\ loc[c].operation # "create"
             /\ loc'[c].operation = "create"
     /\ \A i \in DOMAIN store :
          store'[i] # store[i]
          => \E c \in Calls :
               /\ pc[c] = "update"
               /\ pc'[c] # "update"
               /\ net[c][2].method = "PATCH"
               /\ net[c][2].id = i
               /\ i = loc[c].records[1]
               /\ \A j \in DOMAIN store : j # i => store'[j] = store[j]
               /\ store'[i].table = store[i].table
               /\ DOMAIN store[i].fields \subseteq DOMAIN store'[i].fields
               /\ \A k \in DOMAIN store'[i].fields :
                    (k \notin DOMAIN store[i].fields
                     \/ store'[i].fields[k] # store[i].fields[k])
                    => (/\ k \in DOMAIN req[c].fields.map
                        /\ req[c].fields.map[k] # ""
                        /\ store'[i].fields[k] = req[c].fields.map[k])]_vars

\* an update that sent a new Title and an empty Status has been answered:
\* the record has the new Title and its stored Status
C24_Witness ==
  /\ route[1] = "update"
  /\ pc[1] = "done"
  /\ loc[1].operation = "update"
  /\ req[1].title = "Ep12"
  /\ "Status" \in DOMAIN req[1].fields.map
  /\ req[1].fields.map["Status"] = ""
  /\ "Title" \in DOMAIN req[1].fields.map
  /\ req[1].fields.map["Title"] = "ep12"
  /\ store[loc[1].recordId].fields["Title"] = "ep12"
  /\ store[loc[1].recordId].fields["Status"] = "Published"

\* C25: for each event handed to the reporter there is at most one delivery
\* to the sink, whatever the delivery's outcome (accepted, refused, thrown,
\* no sink bound), and the reporter then returns to the handler, which
\* answers with the response it had prepared: no delivery is repeated and
\* no call is left by an exception of the reporter.
C25_OneDeliveryNoThrow ==
  \A c \in Calls :
    /\ Len(sink[c]) <= Len(events[c])
    /\ pc[c] = "report" => Len(sink[c]) = Len(events[c]) - 1
    /\ pc[c] # "threw"
    /\ pc[c] = "done" => (Len(sink[c]) = Len(events[c]) /\ resp[c] # NoResponse)
    /\ (pc[c] = "done" /\ events[c] # <<>>) => resp[c] = pending[c]

\* a call whose one delivery the sink refused has been answered
C25_Witness ==
  /\ pc[1] = "done"
  /\ Len(events[1]) = 1
  /\ sink[1] = <<"nonok">>
  /\ resp[1] = pending[1]
  /\ resp[1] # NoResponse

\* C26: two upserts of one table in flight at once, starting from an empty
\* store, with different keys and such that no record either call writes,
\* in whatever order they run, matches both filters: once both have been
\* answered with success, the operations performed and the records stored
\* are those of running one call after the other, in one of the two orders.
C26_DifferentKeysIndependent ==
  LET K(c) == <<filterField(req[c]), filterValue(req[c])>>
      sent(c) == cleanedFields(req[c].fields)
      R(c) == CreateFields(req[c].title, sent(c))
      M(rec, c) == K(c)[1] \in DOMAIN rec /\ rec[K(c)[1]] = K(c)[2]
      created == {c \in Calls : loc[c].operation = "create"}
      SeqOutcome(a, b) ==
        IF M(R(a), b)
        THEN /\ loc[a].operation = "create"
             /\ loc[b].operation = "update"
             /\ Len(store) = 1
             /\ store[1].fields = Spread(R(a), sent(b))
        ELSE /\ loc[a].operation = "create"
             /\ loc[b].operation = "create"
             /\ Len(store) = 2
             /\ {store[1].fields, store[2].fields} = {R(a), R(b)}
  IN  (/\ \A c \in Calls :
            route[c] = "update" /\ pc[c] = "done" /\ resp[c].status = 200
       /\ req[1].table = req[2].table
       /\ K(1) # K(2)
       /\ Len(store) = Cardinality(created)
       /\ \A rec \in {R(1), R(2), Spread(R(1), sent(2)), Spread(R(2), sent(1))} :
            ~(M(rec, 1) /\ M(rec, 2)))
      => (SeqOutcome(1, 2) \/ SeqOutcome(2, 1))

\* C27: an upsert answered {success: true, recordId, fields} issued exactly
\* one write, a POST or a PATCH, and that write was answered with success;
\* after a POST recordId is the id of the record the POST created, which
\* holds the fields sent, and fields are those fields; after a PATCH
\* recordId is the id of the first record the search listed, which is the
\* record patched, and fields are what the upstream echoed for it.
C27_SuccessMeansWrite ==
  \A c \in Calls :
    (route[c] = "update" /\ pc[c] = "done" /\ resp[c].text = "success")
    => (/\ resp[c].status = 200
        /\ Len(net[c]) = 2
        /\ replies[c] = <<"ok", "ok">>
        /\ net[c][1].method = "GET"
        /\ resp[c].recordId \in DOMAIN store
        /\ \/ /\ net[c][2].method = "POST"
              /\ loc[c].records = <<>>
              /\ resp[c].recordId = Len(store)
              /\ store[resp[c].recordId].fields = net[c][2].fields
              /\ resp[c].fields = net[c][2].fields
           \/ /\ net[c][2].method = "PATCH"
              /\ loc[c].records # <<>>
              /\ resp[c].recordId = loc[c].records[1]
              /\ net[c][2].id = resp[c].recordId
              /\ resp[c].fields \in {store[resp[c].recordId].fields, net[c][2].fields})

\* an update of the first of two records the search listed has been
\* answered with success
C27_Witness ==
  /\ route[1] = "update"
  /\ pc[1] = "done"
  /\ resp[1].text = "success"
  /\ net[1][2].method = "PATCH"
  /\ Len(loc[1].records) = 2
  /\ resp[1].recordId = loc[1].records[1]

\* C28: an answered upsert has one event, whose level is info exactly when
\* the response is the success response; the info event names the write
\* performed, in its operation and in its service label: the create when
\* the search listed no record, the update otherwise; and a response of
\* status 400, 403 or 500 goes with an event of level error.
C28_EventAgreesWithResponse ==
  \A c \in Calls :
    (route[c] = "update" /\ pc[c] = "done")
    => (/\ Len(events[c]) = 1
        /\ events[c][1].level \in {"info", "error"}
        /\ events[c][1].level = "info" <=> resp[c].text = "success"
        /\ events[c][1].level = "info"
           => (/\ Len(net[c]) = 2
               /\ loc[c].records = <<>>
                  => (/\ net[c][2].method = "POST"
                      /\ events[c][1].operation = "create"
                      /\ events[c][1].service = "airtable-create"
                      /\ events[c][1].message = "Airtable create successful")
               /\ loc[c].records # <<>>
                  => (/\ net[c][2].method = "PATCH"
                      /\ events[c][1].operation = "update"
                      /\ events[c][1].service = "airtable-update"
                      /\ events[c][1].message = "Airtable update successful"))
        /\ resp[c].status \in {200, 400, 403, 500}
        /\ resp[c].status \in {400, 403, 500} => events[c][1].level = "error"
        /\ resp[c].status = 200 => events[c][1].level = "info")

\* an upsert that found no record has been answered with success and its
\* event names the create
C28_Witness ==
  /\ route[1] = "update"
  /\ pc[1] = "done"
  /\ resp[1].text = "success"
  /\ loc[1].records = <<>>
  /\ Len(events[1]) = 1
  /\ events[1][1].level = "info"
  /\ events[1][1].operation = "create"

====
